---- MODULE Spec2Model ----
(***************************************************************************)
(* dg_fast_farmer: the harvester RespondSignatures handler                 *)
(* (src/farmer/protocols/harvester/respond_signatures.rs) and the key      *)
(* loading of src/farmer/config.rs, as a state machine.                    *)
(*                                                                         *)
(* Option<T> is a sequence of length 0 (None) or 1 (Some).  A HashMap is a *)
(* function whose DOMAIN is the key set.  Hashes, keys and signatures are  *)
(* small integers / small algebraic values; the BLS group is Z_GroupOrder  *)
(* written additively, a public key is Generator * sk, and a signature is  *)
(* a formal sum of scalars over hashed points.                             *)
(***************************************************************************)
EXTENDS Integers, Sequences, FiniteSets, TLC

\* ------------------------------------------------------------------ bounds
\* longest message_signatures list a harvester response carries
MaxMessages == 3
\* sp_hash values 1..NumSpHashes
NumSpHashes == 4
\* records ingestion leaves at most under one sp_hash
MaxRecords == 2
\* longest farmer_info list of a configuration
MaxFarmerInfos == 2

\* ------------------------------------------------------- BLS (blst) algebra
GroupOrder == 11
Generator == 5

None == <<>>
Some(x) == <<x>>

Scalars == 1..(GroupOrder - 1)

\* SecretKey::sk_to_pk
PkOf(sk) == (Generator * sk) % GroupOrder

\* the public key a blst validation rejects (point at infinity)
InvalidPk == 0

\* a signature is a set of <<prepended key, message, scalar>>: the scalar
\* multiple of the hash-to-curve point of (prepended key || message)
Points(sig) == {<<t[1], t[2]>> : t \in sig}

Coef(sig, pt) ==
    IF \E t \in sig : <<t[1], t[2]>> = pt
    THEN (CHOOSE t \in sig : <<t[1], t[2]>> = pt)[3]
    ELSE 0

RECURSIVE CoefSum(_, _)
CoefSum(sigs, pt) ==
    IF sigs = <<>> THEN 0
    ELSE (Coef(Head(sigs), pt) + CoefSum(Tail(sigs), pt)) % GroupOrder

\* the decoded forms of a 96-byte signature: a group element, or a curve point
\* outside the group (decodes, fails the group check of aggregate)
GroupSig(s) == [in_group |-> TRUE, sig |-> s]
NotInGroup == [in_group |-> FALSE, sig |-> {}]

\* sign_prepend(sk, msg, prepend_pk): augmented-scheme signing
SignPrepend(sk, msg, prepend_pk) == GroupSig({<<prepend_pk, msg, sk % GroupOrder>>})

\* sign(sk, msg): augmented scheme, the signer's own key prepended
Sign(sk, msg) == SignPrepend(sk, msg, PkOf(sk))

AllPoints(sigs) == UNION {Points(sigs[i].sig) : i \in DOMAIN sigs}

\* AggregateSignature::aggregate(sigs, sigs_groupcheck = true)
\* -> Result<AggregateSignature, BLST_ERROR>
Aggregate(sigs) ==
    IF \E i \in DOMAIN sigs : ~sigs[i].in_group
    THEN [ok |-> FALSE, sig |-> {}]
    ELSE [ok |-> TRUE,
          sig |-> {<<pt[1], pt[2], CoefSum([i \in DOMAIN sigs |-> sigs[i].sig], pt)>> :
                     pt \in {p \in AllPoints(sigs) :
                               CoefSum([i \in DOMAIN sigs |-> sigs[i].sig], p) # 0}}]

\* Signature::verify(true, msg, AUG_SCHEME_DST, aug, pk, true) == BLST_SUCCESS
Verify(sig, msg, aug, pk) ==
    /\ pk # InvalidPk
    /\ \E s \in Scalars : sig = {<<aug, msg, s>>} /\ PkOf(s) = pk

\* generate_taproot_sk(local_pk, farmer_pk): key_gen over a hash of the two keys
GenerateTaprootSk(local_pk, farmer_pk) ==
    ((2 * local_pk + 3 * farmer_pk) % (GroupOrder - 1)) + 1

\* generate_plot_public_key(local_pk, farmer_pk, include_taproot)
\* -> Result<PublicKey, Error>: aggregation of validated public keys
GeneratePlotPublicKey(local_pk, farmer_pk, include_taproot) ==
    IF local_pk = InvalidPk \/ farmer_pk = InvalidPk
    THEN [ok |-> FALSE, pk |-> InvalidPk]
    ELSE [ok |-> TRUE,
          pk |-> (local_pk + farmer_pk
                  + (IF include_taproot
                     THEN PkOf(GenerateTaprootSk(local_pk, farmer_pk))
                     ELSE 0)) % GroupOrder]

\* --------------------------------------------------------- quality verifier
\* the proof-of-space challenge a proof is bound to
PosChallenge(challenge_hash, sp_hash) == 10 * challenge_hash + sp_hash

QualityHash(proof) == 100 + proof

\* the proof checked against the sp_hash alone
QualityForAnyChallengeHash(pospace, challenge_hash, sp_hash) ==
    IF \E ch \in 1..9 : pospace.challenge = PosChallenge(ch, sp_hash)
    THEN Some(QualityHash(pospace.proof))
    ELSE None

\* verify_and_get_quality_string(pospace, constants, challenge_hash, sp_hash)
\* -> Option<Bytes32>
VerifyAndGetQualityString(pospace, challenge_hash, sp_hash) ==
    IF pospace.challenge = PosChallenge(challenge_hash, sp_hash)
    THEN Some(QualityHash(pospace.proof))
    ELSE None

\* ------------------------------------------------------------ config.rs
MapInsert(m, k, v) == [x \in (DOMAIN m) \cup {k} |-> IF x = k THEN v ELSE m[x]]

EmptyMap == [x \in {} |-> 0]

\* Bytes32 -> SecretKey
SecretKeyFrom(bytes) == bytes % GroupOrder

NoKeys ==
    [farmer_secret_keys |-> EmptyMap, owner_secret_keys |-> EmptyMap,
     auth_secret_keys |-> EmptyMap, pool_secret_keys |-> EmptyMap]

\* the pool key stored under the farmer's public key, as the auth key is
\* stored under the owner's
LoadKeysStepPoolUnderFarmerPk(keys, farmer_info) ==
    LET f_sk == SecretKeyFrom(farmer_info.farmer_secret_key)
    IN  [keys EXCEPT
            !.farmer_secret_keys = MapInsert(@, PkOf(f_sk), f_sk),
            !.pool_secret_keys =
                IF farmer_info.pool_secret_key # None
                THEN MapInsert(@, PkOf(f_sk),
                               SecretKeyFrom(farmer_info.pool_secret_key[1]))
                ELSE @]

\* one iteration of the loop of load_keys over config.farmer_info
LoadKeysStep(keys, farmer_info) ==
    LET f_sk == SecretKeyFrom(farmer_info.farmer_secret_key)
        farmer == MapInsert(keys.farmer_secret_keys, PkOf(f_sk), f_sk)
        pool == IF farmer_info.pool_secret_key # None
                THEN MapInsert(keys.pool_secret_keys,
                               PkOf(SecretKeyFrom(farmer_info.pool_secret_key[1])),
                               SecretKeyFrom(farmer_info.pool_secret_key[1]))
                ELSE keys.pool_secret_keys
        owner == IF farmer_info.owner_secret_key # None
                 THEN MapInsert(keys.owner_secret_keys,
                                PkOf(SecretKeyFrom(farmer_info.owner_secret_key[1])),
                                SecretKeyFrom(farmer_info.owner_secret_key[1]))
                 ELSE keys.owner_secret_keys
        auth == IF farmer_info.owner_secret_key # None /\ farmer_info.auth_secret_key # None
                THEN MapInsert(keys.auth_secret_keys,
                               PkOf(SecretKeyFrom(farmer_info.owner_secret_key[1])),
                               SecretKeyFrom(farmer_info.auth_secret_key[1]))
                ELSE keys.auth_secret_keys
    IN  [farmer_secret_keys |-> farmer, owner_secret_keys |-> owner,
         auth_secret_keys |-> auth, pool_secret_keys |-> pool]

RECURSIVE LoadKeysFrom(_, _)
LoadKeysFrom(keys, farmer_infos) ==
    IF farmer_infos = <<>> THEN keys
    ELSE LoadKeysFrom(LoadKeysStep(keys, Head(farmer_infos)), Tail(farmer_infos))

\* load_keys(config)
LoadKeys(config) == LoadKeysFrom(NoKeys, config.farmer_info)

FarmingInfo(farmer_sk, pool_sk) ==
    [farmer_secret_key |-> farmer_sk, pool_secret_key |-> pool_sk,
     owner_secret_key |-> None, auth_secret_key |-> None]

\* the configuration of the modelled farmer: two farmer keys (one listed
\* twice), one pool key
FarmerConfig ==
    [farmer_info |-> <<FarmingInfo(1, Some(4)), FarmingInfo(2, None), FarmingInfo(2, None)>>]

\* ------------------------------------------------------ the values in play
\* harvester-local secret keys
LocalSks == {5, 6}
\* farmer public keys a harvester may name: PkOf(2) is owned, PkOf(3) is not
OwnedFarmerPk == PkOf(2)
ForeignFarmerPk == PkOf(3)
\* message hashes of a response; 1 and 2 are also sp hashes, 2 and 3 are
\* reward-chain hashes of stored signage points
MessageHashes == {1, 2, 3}
ChallengeHashes == {1, 2}
PlotIdentifiers == {1, 2, 3, 4, 5, 6}
SpHashes == 1..NumSpHashes

\* NewSignagePoint, as stored in shared_state.signage_points
SignagePoint(sp_hash, challenge_hash, reward_chain_sp, index) ==
    [challenge_hash |-> challenge_hash, challenge_chain_sp |-> sp_hash,
     reward_chain_sp |-> reward_chain_sp, signage_point_index |-> index]

\* ProofOfSpace
ProofOfSpace(challenge, plot_public_key, pool_public_key, pool_contract_puzzle_hash, proof) ==
    [challenge |-> challenge, plot_public_key |-> plot_public_key,
     pool_public_key |-> pool_public_key,
     pool_contract_puzzle_hash |-> pool_contract_puzzle_hash, proof |-> proof]

\* plot 1: plain plot of local key 5, farming to the owned pool key
PlotA ==
    ProofOfSpace(PosChallenge(1, 1),
                 GeneratePlotPublicKey(PkOf(5), OwnedFarmerPk, FALSE).pk,
                 Some(PkOf(4)), None, 1)
\* plot 2: pool-contract plot of local key 6 (taproot key included)
PlotB ==
    ProofOfSpace(PosChallenge(1, 1),
                 GeneratePlotPublicKey(PkOf(6), OwnedFarmerPk, TRUE).pk,
                 None, Some(7), 2)

\* plot 3: plain plot of local key 6, farming to a pool key the farmer does
\* not own
PlotC ==
    ProofOfSpace(PosChallenge(1, 1),
                 GeneratePlotPublicKey(PkOf(6), OwnedFarmerPk, FALSE).pk,
                 Some(PkOf(7)), None, 3)

\* plot 4: pool-contract plot of local key 5 that also names the owned pool key
PlotE ==
    ProofOfSpace(PosChallenge(1, 1),
                 GeneratePlotPublicKey(PkOf(5), OwnedFarmerPk, TRUE).pk,
                 Some(PkOf(4)), Some(7), 4)

\* plot 5: plain plot of local key 6 with neither pool key nor pool contract
PlotF ==
    ProofOfSpace(PosChallenge(1, 1),
                 GeneratePlotPublicKey(PkOf(6), OwnedFarmerPk, FALSE).pk,
                 None, None, 5)

\* sp hash 1: two records and five proofs; 2: one record, no proofs entry;
\* 3: an entry holding no record; above 3: unknown
StoredSignagePoints ==
    [h \in {1, 2, 3} |->
        CASE h = 1 -> <<SignagePoint(1, 1, 2, 8), SignagePoint(1, 1, 3, 9)>>
          [] h = 2 -> <<SignagePoint(2, 1, 2, 7)>>
          [] OTHER -> <<>>]

StoredProofs ==
    [h \in {1} |-> <<<<1, PlotA>>, <<2, PlotB>>, <<3, PlotC>>, <<4, PlotE>>, <<5, PlotF>>>>]

\* ------------------------------------------------------- harvester responses
\* Bytes96 as received: it decodes to a signature, or does not decode
SignatureBytes(value) == [decodes |-> TRUE, value |-> value]
Undecodable == [decodes |-> FALSE, value |-> NotInGroup]

\* the plot a harvester signs for: its local key, the farmer key it was
\* plotted to, whether it is a pool-contract (taproot) plot; local_pk is the
\* key it reports
HarvesterPlots ==
    {[local_sk |-> 5, farmer_pk |-> OwnedFarmerPk, taproot |-> FALSE, local_pk |-> PkOf(5)],
     [local_sk |-> 5, farmer_pk |-> OwnedFarmerPk, taproot |-> TRUE, local_pk |-> PkOf(5)],
     [local_sk |-> 6, farmer_pk |-> OwnedFarmerPk, taproot |-> FALSE, local_pk |-> PkOf(6)],
     [local_sk |-> 6, farmer_pk |-> OwnedFarmerPk, taproot |-> TRUE, local_pk |-> PkOf(6)],
     [local_sk |-> 5, farmer_pk |-> ForeignFarmerPk, taproot |-> FALSE, local_pk |-> PkOf(5)],
     [local_sk |-> 5, farmer_pk |-> OwnedFarmerPk, taproot |-> FALSE, local_pk |-> InvalidPk]}

HarvesterPlotPk(hp) ==
    GeneratePlotPublicKey(PkOf(hp.local_sk), hp.farmer_pk, hp.taproot).pk

SignatureKinds == {"undecodable", "not_in_group", "share"}

\* one (message hash, signature bytes) pair of a harvester
MessageSignature(hp, hash, kind) ==
    <<hash,
      CASE kind = "undecodable" -> Undecodable
        [] kind = "not_in_group" -> SignatureBytes(NotInGroup)
        [] OTHER -> SignatureBytes(SignPrepend(hp.local_sk, hash, HarvesterPlotPk(hp)))>>

MessagePairs(hp) ==
    {<<MessageSignature(hp, h1, k1), MessageSignature(hp, h2, k2)>> :
        h1 \in MessageHashes, k1 \in SignatureKinds,
        h2 \in MessageHashes, k2 \in SignatureKinds}

\* lists longer than 2: a pair followed by further honest entries over hash 1
RECURSIVE Padded(_, _, _)
Padded(hp, list, len) ==
    IF Len(list) >= len THEN list
    ELSE Padded(hp, Append(list, MessageSignature(hp, 1, "share")), len)

MessageLists(hp) ==
    {<<>>}
    \cup {<<MessageSignature(hp, h, "share")>> : h \in MessageHashes}
    \cup MessagePairs(hp)
    \cup {Padded(hp, pair, len) : pair \in MessagePairs(hp), len \in 3..MaxMessages}

\* RespondSignatures
RespondSignatures(sp_hash, challenge_hash, plot_identifier, hp, message_signatures) ==
    [sp_hash |-> sp_hash, challenge_hash |-> challenge_hash,
     plot_identifier |-> plot_identifier, local_pk |-> hp.local_pk,
     farmer_pk |-> hp.farmer_pk, message_signatures |-> message_signatures]

\* ------------------------------------------------------------------ state
VARIABLES
    signage_points,       \* shared_state.signage_points: sp_hash -> Vec<NewSignagePoint>
    proofs_of_space,      \* shared_state.proofs_of_space: sp_hash -> Vec<(plot id, ProofOfSpace)>
    full_node_client,     \* shared_state.full_node_client: Option<client>
    farmer_private_keys,  \* shared_state.farmer_private_keys: pk -> sk
    pool_public_keys,     \* shared_state.pool_public_keys: pk -> sk
    farmer_target,        \* shared_state.farmer_target
    pool_target,          \* shared_state.pool_target
    lock,                 \* holder of each tokio Mutex, 0 when free
    pc,                   \* per handler task: the await it is at
    response,             \* per handler task: Option<RespondSignatures>
    locals,               \* per handler task: the local variables of handle_signature
    result,               \* per handler task: "none", "Ok", "Err", or "Panic"
    log,                  \* per handler task: the log lines written by this call
    sent,                 \* per handler task: the sends this call made, with their outcome
    config                \* the Config the keys are loaded from

vars ==
    <<signage_points, proofs_of_space, full_node_client, farmer_private_keys,
      pool_public_keys, farmer_target, pool_target, lock, pc, response, locals,
      result, log, sent, config>>

\* the key ring and the configuration it was loaded from
keyring == <<farmer_private_keys, pool_public_keys, farmer_target, pool_target, config>>
maps == <<signage_points, proofs_of_space>>

LockNames == {"signage_points", "proofs_of_space", "full_node_client", "client"}

HandlerTasks == {1}

NoLocals ==
    [sps |-> None, sp_index |-> 0, found_sp_hash_debug |-> FALSE,
     is_sp_signatures |-> FALSE, proofs_locked |-> FALSE, pospace |-> None,
     computed_quality_string |-> None, keys |-> {}, used_keys |-> {},
     agg_pk |-> None, sigs_to_agg |-> <<>>, verified |-> <<>>, request |-> None]

\* ------------------------------------------------- handle_signature, lines 36-62
\* the last entry taken for the second
LastMessage(message_signatures) == message_signatures[Len(message_signatures)]

FirstMessage(message_signatures) == message_signatures[1]
SecondMessage(message_signatures) == message_signatures[2]

\* self.shared_state.signage_points.lock().await.get(&response.sp_hash)
GetSignagePoints(sp_hash) ==
    IF sp_hash \in DOMAIN signage_points THEN Some(signage_points[sp_hash]) ELSE None

\* the lookup without the is_empty test of line 43
SignagePointsFoundNoEmptyCheck(sps) == sps # None

\* lines 36 and 43: the response is looked at only for a known, non-empty entry
SignagePointsFound(sps) == sps # None /\ sps[1] # <<>>

\* the index of the last record taken
SpIndexOfLast(sps) == sps[Len(sps)].signage_point_index

\* lines 46-49: sps.first().signage_point_index, over a non-empty sps
SpIndex(sps) == sps[1].signage_point_index

\* the first hash alone deciding the phase: no record compared, no assertion
SpSignaturesFirstHashOnly(sps, resp) ==
    LET msgs == resp.message_signatures
        found == Len(msgs) >= 1 /\ resp.sp_hash = msgs[1][1]
        out_of_bounds == Len(msgs) = 0 \/ (found /\ Len(msgs) < 2)
    IN  [panic |-> out_of_bounds,
         found_sp_hash_debug |-> found,
         is_sp_signatures |-> found /\ ~out_of_bounds]

\* the loop of lines 52-59 and the assertion of lines 60-62 over a non-empty
\* sps; panic: an index out of bounds or the failed assertion
SpSignatures(sps, resp) ==
    LET msgs == resp.message_signatures
        found == Len(msgs) >= 1 /\ resp.sp_hash = FirstMessage(msgs)[1]
        out_of_bounds == Len(msgs) = 0 \/ (found /\ Len(msgs) < 2)
        is_sp == /\ found
                 /\ ~out_of_bounds
                 /\ \E i \in DOMAIN sps : sps[i].reward_chain_sp = SecondMessage(msgs)[1]
    IN  [panic |-> out_of_bounds \/ (found /\ ~is_sp),
         found_sp_hash_debug |-> found,
         is_sp_signatures |-> is_sp]

\* --------------------------------------------------------- lines 63-95, 265-275
\* the loop of lines 68-73: first entry with the response's plot identifier
RECURSIVE FindProof(_, _)
FindProof(proofs, plot_identifier) ==
    IF proofs = <<>> THEN None
    ELSE IF Head(proofs)[1] = plot_identifier THEN Some(Head(proofs)[2])
    ELSE FindProof(Tail(proofs), plot_identifier)

\* the entry taken out of the map by the lookup (remove for get)
ProofsAfterRemove(proofs, sp_hash) == [h \in (DOMAIN proofs) \ {sp_hash} |-> proofs[h]]

\* line 66: locked.get borrows the entry; the map keeps it
ProofsAfterGet(proofs, sp_hash) == proofs

\* the taproot share left out whatever the proof says
IncludeTaprootNever(pospace) == FALSE

\* line 80
IncludeTaproot(pospace) == pospace.pool_contract_puzzle_hash # None

\* Bytes96 -> Signature (try_into)
TryIntoSignature(bytes) == [ok |-> bytes.decodes, sig |-> bytes.value]

\* line 265
HasTwoMessages(message_signatures) == Len(message_signatures) > 1

\* a rejection propagated as an error
RejectionIsError == "Err"

\* what a rejection the handler expects returns (lines 76, 108, 161, 197, 216,
\* 359, 374, 415, 419, 423, 429)
RejectionResult == "Ok"

\* the quality check skipped
QualityNeverRejected(quality) == FALSE

\* lines 81 and 417: the verifier returned no quality string
QualityRejected(quality) == quality = None

\* lines 79-95 and 265-275, 413-424: from the copied proof to the key scan
PrepareSigning(resp, pospace_opt, is_sp_signatures) ==
    IF pospace_opt = None
    THEN [next |-> "done", result |-> RejectionResult, log |-> "Failed to find Proof",
          quality |-> None]
    ELSE
    LET pospace == pospace_opt[1]
        quality == VerifyAndGetQualityString(pospace, resp.challenge_hash, resp.sp_hash)
        msgs == resp.message_signatures
    IN  IF QualityRejected(quality)
        THEN [next |-> "done", result |-> RejectionResult, log |-> "Have invalid PoSpace",
              quality |-> None]
        ELSE IF is_sp_signatures \/ HasTwoMessages(msgs)
        THEN IF /\ TryIntoSignature(FirstMessage(msgs)[2]).ok
                /\ TryIntoSignature(SecondMessage(msgs)[2]).ok
             THEN [next |-> "scan", result |-> "none", log |-> "", quality |-> quality]
             ELSE [next |-> "done", result |-> "Err", log |-> "", quality |-> quality]
        ELSE [next |-> "done", result |-> RejectionResult,
              log |-> "Detected Partial or PoSpace", quality |-> quality]

\* ----------------------------------------------------- signing with one key
\* every owned key taken for the farmer key of the response
AnyKeyMatches(sk, resp) == TRUE

\* lines 98 and 278
FarmerKeyMatches(sk, resp) == PkOf(sk) = resp.farmer_pk

\* lines 101-103
KeyMismatch(agg_pk, pospace) == agg_pk # pospace.plot_public_key

\* lines 110-127 and 281-300: the taproot share of one message
TaprootShare(include_taproot, local_pk, pk, msg, agg_pk) ==
    IF include_taproot
    THEN Some(SignPrepend(GenerateTaprootSk(local_pk, pk), msg, agg_pk))
    ELSE None

\* lines 130-139, 166-175, 308-317, 324-338
SigsToAgg(harvester_sig, farmer_share, taproot_share) ==
    IF taproot_share # None
    THEN <<harvester_sig, farmer_share, taproot_share[1]>>
    ELSE <<harvester_sig, farmer_share>>

\* the verification outcome ignored
VerifyNeverFails(agg_sig, msg, agg_pk) == FALSE

\* lines 148-155, 184-191, 346-353, 361-368
VerifyFails(agg_sig, msg, agg_pk) == ~Verify(agg_sig, msg, agg_pk, agg_pk)

\* a counter of the sends made so far mixed into the bytes
ToBytesCounted(sig) ==
    SignatureBytes(GroupSig(sig \cup
        {<<0, 0, Cardinality({t \in DOMAIN sent : sent[t] # <<>>})>>}))

\* Signature -> Bytes96
ToBytes(sig) == SignatureBytes(GroupSig(sig))

\* PoolTarget::to_bytes
PoolTargetBytes(target) == 1000 + 10 * target.puzzle_hash + target.max_height

\* the outcome of the loop body for one key: what the call does next, what it
\* returns, what it logs, and the local values it computed
Outcome(next, res, line, agg_pk, sigs_to_agg, verified, request) ==
    [next |-> next, result |-> res, log |-> line, agg_pk |-> agg_pk,
     sigs_to_agg |-> sigs_to_agg, verified |-> verified, request |-> request]

\* a pool key the key ring lacks passed over: the target goes out unsigned
PoolTargetUnsigned(pospace) ==
    IF pospace.pool_public_key # None
    THEN LET target == [max_height |-> 0, puzzle_hash |-> pool_target]
         IN  [ok |-> TRUE, pool_target |-> Some(target),
              pool_target_signature |->
                  IF pospace.pool_public_key[1] \in DOMAIN pool_public_keys
                  THEN Some(Sign(pool_public_keys[pospace.pool_public_key[1]],
                                 PoolTargetBytes(target)))
                  ELSE None]
    ELSE [ok |-> TRUE, pool_target |-> None, pool_target_signature |-> None]

\* a pool key asked of every proof, also of one that names none
PoolKeyAlwaysRequired(pospace) ==
    IF /\ pospace.pool_public_key # None
       /\ pospace.pool_public_key[1] \in DOMAIN pool_public_keys
    THEN LET target == [max_height |-> 0, puzzle_hash |-> pool_target]
         IN  [ok |-> TRUE, pool_target |-> Some(target),
              pool_target_signature |->
                  Some(Sign(pool_public_keys[pospace.pool_public_key[1]],
                            PoolTargetBytes(target)))]
    ELSE [ok |-> FALSE, pool_target |-> None, pool_target_signature |-> None]

\* the pool target left out for a proof that has a pool contract
PoolTargetUnlessContract(pospace) ==
    IF pospace.pool_public_key # None /\ pospace.pool_contract_puzzle_hash = None
    THEN IF pospace.pool_public_key[1] \in DOMAIN pool_public_keys
         THEN LET target == [max_height |-> 0, puzzle_hash |-> pool_target]
              IN  [ok |-> TRUE, pool_target |-> Some(target),
                   pool_target_signature |->
                       Some(Sign(pool_public_keys[pospace.pool_public_key[1]],
                                 PoolTargetBytes(target)))]
         ELSE [ok |-> FALSE, pool_target |-> None, pool_target_signature |-> None]
    ELSE [ok |-> TRUE, pool_target |-> None, pool_target_signature |-> None]

\* lines 199-220
PoolTargetAndSignature(pospace) ==
    IF pospace.pool_public_key # None
    THEN IF pospace.pool_public_key[1] \in DOMAIN pool_public_keys
         THEN LET target == [max_height |-> 0, puzzle_hash |-> pool_target]
              IN  [ok |-> TRUE, pool_target |-> Some(target),
                   pool_target_signature |->
                       Some(Sign(pool_public_keys[pospace.pool_public_key[1]],
                                 PoolTargetBytes(target)))]
         ELSE [ok |-> FALSE, pool_target |-> None, pool_target_signature |-> None]
    ELSE [ok |-> TRUE, pool_target |-> None, pool_target_signature |-> None]

\* the declaration built from the proof the map holds now, not from the copy
DeclareStoredProof(resp, cc, rc, sp_index, pospace, agg_sig_cc_sp, agg_sig_rc_sp, pool) ==
    LET stored == IF resp.sp_hash \in DOMAIN proofs_of_space
                  THEN FindProof(proofs_of_space[resp.sp_hash], resp.plot_identifier)
                  ELSE None
    IN  [type |-> "DeclareProofOfSpace",
         challenge_hash |-> resp.challenge_hash,
         challenge_chain_sp |-> cc,
         signage_point_index |-> sp_index,
         reward_chain_sp |-> rc,
         proof_of_space |-> IF stored # None THEN stored[1] ELSE pospace,
         challenge_chain_sp_signature |-> ToBytes(agg_sig_cc_sp),
         reward_chain_sp_signature |-> ToBytes(agg_sig_rc_sp),
         farmer_puzzle_hash |-> farmer_target,
         pool_target |-> pool.pool_target,
         pool_signature |->
             IF pool.pool_target_signature = None THEN None
             ELSE Some(SignatureBytes(pool.pool_target_signature[1]))]

\* lines 221-239
DeclareProofOfSpace(resp, cc, rc, sp_index, pospace, agg_sig_cc_sp, agg_sig_rc_sp, pool) ==
    [type |-> "DeclareProofOfSpace",
     challenge_hash |-> resp.challenge_hash,
     challenge_chain_sp |-> cc,
     signage_point_index |-> sp_index,
     reward_chain_sp |-> rc,
     proof_of_space |-> pospace,
     challenge_chain_sp_signature |-> ToBytes(agg_sig_cc_sp),
     reward_chain_sp_signature |-> ToBytes(agg_sig_rc_sp),
     farmer_puzzle_hash |-> farmer_target,
     pool_target |-> pool.pool_target,
     pool_signature |->
         IF pool.pool_target_signature = None THEN None
         ELSE Some(SignatureBytes(pool.pool_target_signature[1]))]

\* lines 376-386
SignedValues(quality_string, foliage_agg_sig, foliage_block_agg_sig) ==
    [type |-> "SignedValues",
     quality_string |-> quality_string,
     foliage_block_data_signature |-> ToBytes(foliage_agg_sig),
     foliage_transaction_block_signature |-> ToBytes(foliage_block_agg_sig)]

\* lines 99-239: the body of the key loop of the signage-point branch, for a
\* key that matches
SignSignagePoint(resp, pospace, sp_index, sk) ==
    LET msgs == resp.message_signatures
        challenge_chain_sp == FirstMessage(msgs)[1]
        reward_chain_sp == SecondMessage(msgs)[1]
        cc_harv_sig == TryIntoSignature(FirstMessage(msgs)[2]).sig
        rc_harv_sig == TryIntoSignature(SecondMessage(msgs)[2]).sig
        pk == PkOf(sk)
        include_taproot == IncludeTaproot(pospace)
        gen == GeneratePlotPublicKey(resp.local_pk, pk, include_taproot)
        agg_pk == gen.pk
        cc_sigs_to_agg ==
            SigsToAgg(cc_harv_sig, SignPrepend(sk, challenge_chain_sp, agg_pk),
                      TaprootShare(include_taproot, resp.local_pk, pk,
                                   challenge_chain_sp, agg_pk))
        rc_sigs_to_agg ==
            SigsToAgg(rc_harv_sig, SignPrepend(sk, reward_chain_sp, agg_pk),
                      TaprootShare(include_taproot, resp.local_pk, pk,
                                   reward_chain_sp, agg_pk))
        agg_sig_cc_sp == Aggregate(cc_sigs_to_agg)
        agg_sig_rc_sp == Aggregate(rc_sigs_to_agg)
        pool == PoolTargetAndSignature(pospace)
    IN  IF ~gen.ok
        THEN Outcome("done", "Err", "", None, <<>>, <<>>, None)
        ELSE IF KeyMismatch(agg_pk, pospace)
        THEN Outcome("done", RejectionResult, "Key Mismatch", Some(agg_pk), <<>>, <<>>, None)
        ELSE IF ~agg_sig_cc_sp.ok
        THEN Outcome("done", "Err", "", Some(agg_pk), <<cc_sigs_to_agg>>, <<>>, None)
        ELSE IF VerifyFails(agg_sig_cc_sp.sig, challenge_chain_sp, agg_pk)
        THEN Outcome("done", RejectionResult, "Failed to validate cc signature",
                     Some(agg_pk), <<cc_sigs_to_agg>>, <<FALSE>>, None)
        ELSE IF ~agg_sig_rc_sp.ok
        THEN Outcome("done", "Err", "", Some(agg_pk),
                     <<cc_sigs_to_agg, rc_sigs_to_agg>>, <<TRUE>>, None)
        ELSE IF VerifyFails(agg_sig_rc_sp.sig, reward_chain_sp, agg_pk)
        THEN Outcome("done", RejectionResult, "Failed to validate rc signature",
                     Some(agg_pk), <<cc_sigs_to_agg, rc_sigs_to_agg>>, <<TRUE, FALSE>>, None)
        ELSE IF ~pool.ok
        THEN Outcome("done", RejectionResult,
                     "Don't have the private key for the pool key used by harvester",
                     Some(agg_pk), <<cc_sigs_to_agg, rc_sigs_to_agg>>, <<TRUE, TRUE>>, None)
        ELSE Outcome("full_node_client", "none", "", Some(agg_pk),
                     <<cc_sigs_to_agg, rc_sigs_to_agg>>, <<TRUE, TRUE>>,
                     Some(DeclareProofOfSpace(resp, challenge_chain_sp, reward_chain_sp,
                                              sp_index, pospace, agg_sig_cc_sp.sig,
                                              agg_sig_rc_sp.sig, pool)))

\* lines 279-386: the body of the key loop of the foliage branch, for a key
\* that matches
SignFoliage(resp, pospace, computed_quality_string, sk) ==
    LET msgs == resp.message_signatures
        foliage_block_data_hash == FirstMessage(msgs)[1]
        foliage_transaction_block_hash == SecondMessage(msgs)[1]
        foliage_sig_harvester == TryIntoSignature(FirstMessage(msgs)[2]).sig
        foliage_transaction_block_sig_harvester ==
            TryIntoSignature(SecondMessage(msgs)[2]).sig
        pk == PkOf(sk)
        include_taproot == IncludeTaproot(pospace)
        gen == GeneratePlotPublicKey(resp.local_pk, pk, include_taproot)
        agg_pk == gen.pk
        foliage_sigs_to_agg ==
            SigsToAgg(foliage_sig_harvester,
                      SignPrepend(sk, foliage_block_data_hash, agg_pk),
                      TaprootShare(include_taproot, resp.local_pk, pk,
                                   foliage_block_data_hash, agg_pk))
        foliage_block_sigs_to_agg ==
            SigsToAgg(foliage_transaction_block_sig_harvester,
                      SignPrepend(sk, foliage_transaction_block_hash, agg_pk),
                      TaprootShare(include_taproot, resp.local_pk, pk,
                                   foliage_transaction_block_hash, agg_pk))
        foliage_agg_sig == Aggregate(foliage_sigs_to_agg)
        foliage_block_agg_sig == Aggregate(foliage_block_sigs_to_agg)
        both == <<foliage_sigs_to_agg, foliage_block_sigs_to_agg>>
    IN  IF ~gen.ok
        THEN Outcome("done", "Err", "", None, <<>>, <<>>, None)
        ELSE IF ~foliage_agg_sig.ok
        THEN Outcome("done", "Err", "", Some(agg_pk), <<foliage_sigs_to_agg>>, <<>>, None)
        ELSE IF ~foliage_block_agg_sig.ok
        THEN Outcome("done", "Err", "", Some(agg_pk), both, <<>>, None)
        ELSE IF VerifyFails(foliage_agg_sig.sig, foliage_block_data_hash, agg_pk)
        THEN Outcome("done", RejectionResult, "Failed to validate foliage signature",
                     Some(agg_pk), both, <<FALSE>>, None)
        ELSE IF VerifyFails(foliage_block_agg_sig.sig, foliage_transaction_block_hash, agg_pk)
        THEN Outcome("done", RejectionResult, "Failed to validate foliage_block signature",
                     Some(agg_pk), both, <<TRUE, FALSE>>, None)
        ELSE Outcome("full_node_client", "none", "", Some(agg_pk), both, <<TRUE, TRUE>>,
                     Some(SignedValues(computed_quality_string, foliage_agg_sig.sig,
                                       foliage_block_agg_sig.sig)))

\* ---------------------------------------------------------------- actions
Resp(t) == response[t][1]

Holds(t, name) == lock[name] = t

\* a mutex that grants its lock to every caller
LockAlwaysFree(name) == TRUE

\* Mutex::lock().await completes only while no guard of the mutex is alive
LockFree(name) == lock[name] = 0

\* the guards of a returning task leaked
ReleaseNothing(t) == lock

\* every MutexGuard of a task is dropped when its call returns or unwinds
ReleaseAll(t) == [n \in LockNames |-> IF lock[n] = t THEN 0 ELSE lock[n]]

\* the call returns (Ok, Err) or panics
Return(t, res, line) ==
    /\ pc' = [pc EXCEPT ![t] = "done"]
    /\ result' = [result EXCEPT ![t] = res]
    /\ log' = [log EXCEPT ![t] = IF line = "" THEN @ ELSE @ \cup {line}]
    /\ lock' = ReleaseAll(t)

\* the state after construction of the shared state, for handler tasks ts
InitShared ==
    /\ signage_points = StoredSignagePoints
    /\ proofs_of_space = StoredProofs
    /\ full_node_client \in {None, Some(1)}
    /\ config = FarmerConfig
    /\ farmer_private_keys = LoadKeys(FarmerConfig).farmer_secret_keys
    /\ pool_public_keys = LoadKeys(FarmerConfig).pool_secret_keys
    /\ farmer_target = 5
    /\ pool_target = 6
    /\ lock = [n \in LockNames |-> 0]

InitTasks(ts) ==
    /\ pc = [t \in ts |-> "idle"]
    /\ response = [t \in ts |-> None]
    /\ locals = [t \in ts |-> NoLocals]
    /\ result = [t \in ts |-> "none"]
    /\ log = [t \in ts |-> {}]
    /\ sent = [t \in ts |-> <<>>]

Init == InitShared /\ InitTasks(HandlerTasks)

\* a harvester response arrives: handle_signature(response) is called
ReceiveResponse(t) ==
    /\ pc[t] = "idle"
    /\ \E hp \in HarvesterPlots, sp \in SpHashes, ch \in ChallengeHashes,
          plot \in PlotIdentifiers :
          \E msgs \in MessageLists(hp) :
             response' = [response EXCEPT
                 ![t] = Some(RespondSignatures(sp, ch, plot, hp, msgs))]
    /\ pc' = [pc EXCEPT ![t] = "signage_points"]
    /\ UNCHANGED <<maps, full_node_client, keyring, lock, locals, result, log, sent>>

\* lines 36-62: the signage_points lock is granted; its guard lives to the
\* end of the if-let, that is to the return of the call
LookupSignagePoints(t) ==
    /\ pc[t] = "signage_points"
    /\ LockFree("signage_points")
    /\ LET sps == GetSignagePoints(Resp(t).sp_hash)
           sp == SpSignatures(sps[1], Resp(t))
       IN  IF ~SignagePointsFound(sps)
           THEN /\ Return(t, RejectionResult,
                          IF sps = None THEN "Do not have challenge hash"
                          ELSE "Missing Signage Points")
                /\ locals' = [locals EXCEPT ![t].sps = sps]
           ELSE IF sps[1] = <<>> \/ sp.panic
           THEN /\ Return(t, "Panic", "")
                /\ locals' = [locals EXCEPT ![t].sps = sps]
           ELSE /\ pc' = [pc EXCEPT ![t] = "proofs_of_space"]
                /\ lock' = [lock EXCEPT !["signage_points"] = t]
                /\ locals' = [locals EXCEPT
                       ![t].sps = sps,
                       ![t].sp_index = SpIndex(sps[1]),
                       ![t].found_sp_hash_debug = sp.found_sp_hash_debug,
                       ![t].is_sp_signatures = sp.is_sp_signatures]
                /\ UNCHANGED <<result, log>>
    /\ UNCHANGED <<maps, full_node_client, keyring, response, sent>>

\* line 65: the proofs_of_space lock is granted
LockProofs(t) ==
    /\ pc[t] = "proofs_of_space"
    /\ LockFree("proofs_of_space")
    /\ lock' = [lock EXCEPT !["proofs_of_space"] = t]
    /\ pc' = [pc EXCEPT ![t] = "lookup_proof"]
    /\ locals' = [locals EXCEPT ![t].proofs_locked = TRUE]
    /\ UNCHANGED <<maps, full_node_client, keyring, response, result, log, sent>>

\* lines 66-95, 265-275, 413-424: the proof is copied, the proofs lock is
\* released, and the call runs on to the key loop or to a return
LookupProof(t) ==
    /\ pc[t] = "lookup_proof"
    /\ IF Resp(t).sp_hash \notin DOMAIN proofs_of_space
       THEN /\ Return(t, RejectionResult, "Failed to load farmer proofs")
            /\ UNCHANGED locals
       ELSE LET pospace == FindProof(proofs_of_space[Resp(t).sp_hash],
                                     Resp(t).plot_identifier)
                prep == PrepareSigning(Resp(t), pospace, locals[t].is_sp_signatures)
            IN  /\ locals' = [locals EXCEPT
                       ![t].pospace = pospace,
                       ![t].computed_quality_string = prep.quality,
                       ![t].keys = IF prep.next = "scan"
                                   THEN DOMAIN farmer_private_keys ELSE {}]
                /\ IF prep.next = "done"
                   THEN Return(t, prep.result, prep.log)
                   ELSE /\ pc' = [pc EXCEPT ![t] = "scan"]
                        /\ lock' = [lock EXCEPT !["proofs_of_space"] = 0]
                        /\ UNCHANGED <<result, log>>
    /\ proofs_of_space' = ProofsAfterGet(proofs_of_space, Resp(t).sp_hash)
    /\ UNCHANGED <<signage_points, full_node_client, keyring, response, sent>>

\* lines 96-239 and 276-386: one iteration of the loop over
\* shared_state.farmer_private_keys (a HashMap: any order)
ScanKey(t, k) ==
    /\ pc[t] = "scan"
    /\ k \in locals[t].keys
    /\ LET sk == farmer_private_keys[k]
           pospace == locals[t].pospace[1]
           out == IF locals[t].is_sp_signatures
                  THEN SignSignagePoint(Resp(t), pospace, locals[t].sp_index, sk)
                  ELSE SignFoliage(Resp(t), pospace,
                                   locals[t].computed_quality_string[1], sk)
       IN  IF ~FarmerKeyMatches(sk, Resp(t))
           THEN /\ locals' = [locals EXCEPT ![t].keys = @ \ {k}]
                /\ UNCHANGED <<pc, result, log, lock>>
           ELSE /\ locals' = [locals EXCEPT
                       ![t].keys = @ \ {k},
                       ![t].used_keys = @ \cup {k},
                       ![t].agg_pk = out.agg_pk,
                       ![t].sigs_to_agg = out.sigs_to_agg,
                       ![t].verified = out.verified,
                       ![t].request = out.request]
                /\ IF out.next = "done"
                   THEN Return(t, out.result, out.log)
                   ELSE /\ pc' = [pc EXCEPT ![t] = out.next]
                        /\ UNCHANGED <<result, log, lock>>
    /\ UNCHANGED <<maps, full_node_client, keyring, response, sent>>

\* line 429: the key loop is over
ReturnOk(t) ==
    /\ pc[t] = "scan"
    /\ locals[t].keys = {}
    /\ Return(t, "Ok", "")
    /\ UNCHANGED <<maps, full_node_client, keyring, response, locals, sent>>

\* lines 240-241, 257-262 and 388-389, 405-410: the full_node_client lock is
\* granted; without a client the request is dropped
LockClient(t) ==
    /\ pc[t] = "full_node_client"
    /\ LockFree("full_node_client")
    /\ IF full_node_client = None
       THEN /\ pc' = [pc EXCEPT ![t] = "scan"]
            /\ log' = [log EXCEPT ![t] = @ \cup {"No Client"}]
            /\ UNCHANGED lock
       ELSE /\ pc' = [pc EXCEPT ![t] = "client"]
            /\ lock' = [lock EXCEPT !["full_node_client"] = t]
            /\ UNCHANGED log
    /\ UNCHANGED <<maps, full_node_client, keyring, response, locals, result, sent>>

\* lines 243-246 and 391-394: the lock of the connection itself is granted
\* and the send starts
LockInner(t) ==
    /\ pc[t] = "client"
    /\ LockFree("client")
    /\ lock' = [lock EXCEPT !["client"] = t]
    /\ pc' = [pc EXCEPT ![t] = "send"]
    /\ UNCHANGED <<maps, full_node_client, keyring, response, locals, result, log, sent>>

\* a failed send tried again
RetryFailedSend(ok) == IF ok THEN "scan" ELSE "full_node_client"

\* where the call goes on after a send that succeeded or failed: the result
\* of send is discarded (let _ =)
AfterSend(ok) == "scan"

\* lines 247-256 and 395-404: the send completes, well or not; both client
\* guards are dropped
SendDone(t, ok) ==
    /\ pc[t] = "send"
    /\ sent' = [sent EXCEPT ![t] = Append(@, [request |-> locals[t].request[1], ok |-> ok])]
    /\ log' = [log EXCEPT ![t] = @ \cup
                 {IF locals[t].request[1].type = "DeclareProofOfSpace"
                  THEN "Declaring Proof of Space" ELSE "Sending Signed Values"}]
    /\ lock' = [lock EXCEPT !["client"] = 0, !["full_node_client"] = 0]
    /\ pc' = [pc EXCEPT ![t] = AfterSend(ok)]
    /\ UNCHANGED <<maps, full_node_client, keyring, response, locals, result>>

\* the task of a finished call ends; the next response starts a new call
Finish(t) ==
    /\ pc[t] = "done"
    /\ pc' = [pc EXCEPT ![t] = "idle"]
    /\ response' = [response EXCEPT ![t] = None]
    /\ locals' = [locals EXCEPT ![t] = NoLocals]
    /\ result' = [result EXCEPT ![t] = "none"]
    /\ log' = [log EXCEPT ![t] = {}]
    /\ sent' = [sent EXCEPT ![t] = <<>>]
    /\ UNCHANGED <<maps, full_node_client, keyring, lock>>

\* the full-node connection is set up or torn down by the client task
Connect ==
    /\ full_node_client = None
    /\ LockFree("full_node_client")
    /\ full_node_client' = Some(1)
    /\ UNCHANGED <<maps, keyring, lock, pc, response, locals, result, log, sent>>

Disconnect ==
    /\ full_node_client # None
    /\ LockFree("full_node_client")
    /\ full_node_client' = None
    /\ UNCHANGED <<maps, keyring, lock, pc, response, locals, result, log, sent>>

Next ==
    \/ \E t \in HandlerTasks :
          \/ ReceiveResponse(t)
          \/ LookupSignagePoints(t)
          \/ LockProofs(t)
          \/ LookupProof(t)
          \/ \E k \in DOMAIN farmer_private_keys : ScanKey(t, k)
          \/ ReturnOk(t)
          \/ LockClient(t)
          \/ LockInner(t)
          \/ \E ok \in BOOLEAN : SendDone(t, ok)
          \/ Finish(t)
    \/ Connect
    \/ Disconnect

Spec == Init /\ [][Next]_vars

\* ------------------------------------------------ concurrent handler tasks
\* every harvester response is handled by a task of its own
ConcurrentTasks == {1, 2}

\* the harvesters of plots 1 and 2
ConcurrentPlots ==
    {hp \in HarvesterPlots :
        /\ hp.local_pk = PkOf(hp.local_sk)
        /\ hp.farmer_pk = OwnedFarmerPk
        /\ hp.taproot <=> hp.local_sk = 6}

\* the plot a harvester of ConcurrentPlots answers for
PlotOf(hp) == IF hp.local_sk = 5 THEN 1 ELSE 2

ConcurrentSpHashes == {1, 2}

\* a signage-point response, a foliage response, and one with an undecodable
\* signature
ConcurrentLists(hp, sp_hash) ==
    {<<MessageSignature(hp, sp_hash, "share"), MessageSignature(hp, 2, "share")>>,
     <<MessageSignature(hp, 3, "share"), MessageSignature(hp, 1, "share")>>,
     <<MessageSignature(hp, 3, "undecodable"), MessageSignature(hp, 1, "share")>>}

ReceiveConcurrent(t) ==
    /\ pc[t] = "idle"
    /\ \E hp \in ConcurrentPlots, sp \in ConcurrentSpHashes :
          \E msgs \in ConcurrentLists(hp, sp) :
             response' = [response EXCEPT
                 ![t] = Some(RespondSignatures(sp, 1, PlotOf(hp), hp, msgs))]
    /\ pc' = [pc EXCEPT ![t] = "signage_points"]
    /\ UNCHANGED <<maps, full_node_client, keyring, lock, locals, result, log, sent>>

\* plot 1 found again for sp hash 2
PlotD ==
    ProofOfSpace(PosChallenge(1, 2), PlotA.plot_public_key, PlotA.pool_public_key,
                 None, 4)

\* signage-point ingestion: under the signage_points lock a record is added
\* to the list of its sp_hash
IngestSignagePoint ==
    /\ LockFree("signage_points")
    /\ \E h \in ConcurrentSpHashes :
          /\ h \in DOMAIN signage_points
          /\ Len(signage_points[h]) < MaxRecords
          /\ signage_points' =
                [signage_points EXCEPT
                    ![h] = Append(@, SignagePoint(h, 1, 3, 5 + Len(@)))]
    /\ UNCHANGED <<proofs_of_space, full_node_client, keyring, lock, pc, response,
                   locals, result, log, sent>>

\* proof ingestion: under the proofs_of_space lock the proofs found for an
\* sp_hash are stored
IngestProof ==
    /\ LockFree("proofs_of_space")
    /\ 2 \notin DOMAIN proofs_of_space
    /\ proofs_of_space' = MapInsert(proofs_of_space, 2, <<<<1, PlotD>>>>)
    /\ UNCHANGED <<signage_points, full_node_client, keyring, lock, pc, response,
                   locals, result, log, sent>>

\* a later proof of plot 1 for sp hash 2, naming no pool key
PlotG == ProofOfSpace(PosChallenge(1, 2), PlotA.plot_public_key, None, None, 6)

\* proof eviction: under the proofs_of_space lock the entry of an sp_hash is
\* dropped
EvictProof ==
    /\ LockFree("proofs_of_space")
    /\ 2 \in DOMAIN proofs_of_space
    /\ proofs_of_space' = [h \in (DOMAIN proofs_of_space) \ {2} |-> proofs_of_space[h]]
    /\ UNCHANGED <<signage_points, full_node_client, keyring, lock, pc, response,
                   locals, result, log, sent>>

\* under the proofs_of_space lock the candidate of a plot is replaced
ReplaceProof ==
    /\ LockFree("proofs_of_space")
    /\ 2 \in DOMAIN proofs_of_space
    /\ proofs_of_space[2] = <<<<1, PlotD>>>>
    /\ proofs_of_space' = [proofs_of_space EXCEPT ![2] = <<<<1, PlotG>>>>]
    /\ UNCHANGED <<signage_points, full_node_client, keyring, lock, pc, response,
                   locals, result, log, sent>>

InitConcurrent == InitShared /\ InitTasks(ConcurrentTasks)

NextConcurrent ==
    \/ \E t \in ConcurrentTasks :
          \/ ReceiveConcurrent(t)
          \/ LookupSignagePoints(t)
          \/ LockProofs(t)
          \/ LookupProof(t)
          \/ \E k \in DOMAIN farmer_private_keys : ScanKey(t, k)
          \/ ReturnOk(t)
          \/ LockClient(t)
          \/ LockInner(t)
          \/ \E ok \in BOOLEAN : SendDone(t, ok)
          \/ Finish(t)
    \/ Connect
    \/ Disconnect
    \/ IngestSignagePoint
    \/ IngestProof

SpecConcurrent == InitConcurrent /\ [][NextConcurrent]_vars

\* one handler task while proofs are ingested, evicted and replaced
NextProofChurn ==
    \/ \E t \in HandlerTasks :
          \/ ReceiveConcurrent(t)
          \/ LookupSignagePoints(t)
          \/ LockProofs(t)
          \/ LookupProof(t)
          \/ \E k \in DOMAIN farmer_private_keys : ScanKey(t, k)
          \/ ReturnOk(t)
          \/ LockClient(t)
          \/ LockInner(t)
          \/ \E ok \in BOOLEAN : SendDone(t, ok)
          \/ Finish(t)
    \/ IngestProof
    \/ EvictProof
    \/ ReplaceProof

SpecProofChurn == Init /\ [][NextProofChurn]_vars

\* ------------------------------------- fair scheduling of tasks and locks
\* the holder written into a lock an ingestion task has taken
IngestionTask == 9

\* a signage-point response for a stored proof, one with an undecodable
\* signature, one for an sp_hash that has no stored proof, and one with an
\* empty list
FairResponses(hp) ==
    {<<1, <<MessageSignature(hp, 1, "share"), MessageSignature(hp, 2, "share")>>>>,
     <<1, <<MessageSignature(hp, 3, "undecodable"), MessageSignature(hp, 1, "share")>>>>,
     <<2, <<MessageSignature(hp, 2, "share"), MessageSignature(hp, 2, "share")>>>>,
     <<1, <<>>>>}

\* the responses of the harvester of plot 1
ReceiveFair(t) ==
    /\ pc[t] = "idle"
    /\ \E hp \in {h \in ConcurrentPlots : PlotOf(h) = 1} :
          \E r \in FairResponses(hp) :
             response' = [response EXCEPT
                 ![t] = Some(RespondSignatures(r[1], 1, PlotOf(hp), hp, r[2]))]
    /\ pc' = [pc EXCEPT ![t] = "signage_points"]
    /\ UNCHANGED <<maps, full_node_client, keyring, lock, locals, result, log, sent>>

\* an ingestion task is granted the one lock it works under
IngestBegin(name) ==
    /\ LockFree(name)
    /\ lock' = [lock EXCEPT ![name] = IngestionTask]
    /\ UNCHANGED <<maps, full_node_client, keyring, pc, response, locals, result, log,
                   sent>>

\* the ingestion task has stored its record (here one that is stored already)
\* and drops its guard
IngestEnd(name) ==
    /\ lock[name] = IngestionTask
    /\ lock' = [lock EXCEPT ![name] = 0]
    /\ IF name = "proofs_of_space"
       THEN /\ proofs_of_space' = MapInsert(proofs_of_space, 1, StoredProofs[1])
            /\ UNCHANGED signage_points
       ELSE /\ signage_points' = MapInsert(signage_points, 1, StoredSignagePoints[1])
            /\ UNCHANGED proofs_of_space
    /\ UNCHANGED <<full_node_client, keyring, pc, response, locals, result, log, sent>>

IngestionLocks == {"signage_points", "proofs_of_space"}

\* a step of the call of task t that takes a lock
Acquire(t) ==
    \/ LookupSignagePoints(t)
    \/ LockProofs(t)
    \/ LockClient(t)
    \/ LockInner(t)

\* a step of the call of task t that waits for no lock
Proceed(t) ==
    \/ LookupProof(t)
    \/ \E k \in DOMAIN farmer_private_keys : ScanKey(t, k)
    \/ ReturnOk(t)
    \/ \E ok \in BOOLEAN : SendDone(t, ok)

NextFair ==
    \/ \E t \in ConcurrentTasks :
          \/ ReceiveFair(t)
          \/ LookupSignagePoints(t)
          \/ LockProofs(t)
          \/ LookupProof(t)
          \/ \E k \in DOMAIN farmer_private_keys : ScanKey(t, k)
          \/ ReturnOk(t)
          \/ LockClient(t)
          \/ LockInner(t)
          \/ \E ok \in BOOLEAN : SendDone(t, ok)
          \/ Finish(t)
    \/ \E name \in IngestionLocks :
          \/ IngestBegin(name)
          \/ IngestEnd(name)
    \/ Connect
    \/ Disconnect

\* the tokio runtime polls every ready task, a tokio Mutex grants its lock in
\* the order of the requests, and a send completes
SpecFair ==
    /\ InitConcurrent
    /\ [][NextFair]_vars
    /\ \A t \in ConcurrentTasks : WF_vars(Proceed(t)) /\ SF_vars(Acquire(t))
    /\ \A name \in IngestionLocks : WF_vars(IngestEnd(name))

\* ------------------------------------------------------ loading the keys
\* the startup task that calls load_keys
StartupTasks == {0}

\* secret key bytes a configuration may hold; 12 converts to the key of 1
ConfiguredFarmerKeys == {1, 2, 12}
ConfiguredPoolKeys == {None, Some(4), Some(1)}

FarmingInfos ==
    {FarmingInfo(f, p) : f \in ConfiguredFarmerKeys, p \in ConfiguredPoolKeys}

Configs ==
    {[farmer_info |-> infos] :
        infos \in UNION {[1..n -> FarmingInfos] : n \in 0..MaxFarmerInfos}}

\* before load_keys: any configuration, no key in the maps
InitLoadKeys ==
    /\ config \in Configs
    /\ farmer_private_keys = EmptyMap
    /\ pool_public_keys = EmptyMap
    /\ signage_points = EmptyMap
    /\ proofs_of_space = EmptyMap
    /\ full_node_client = None
    /\ farmer_target = 5
    /\ pool_target = 6
    /\ lock = [n \in LockNames |-> 0]
    /\ pc = [t \in StartupTasks |-> "load_keys"]
    /\ response = [t \in StartupTasks |-> None]
    /\ locals = [t \in StartupTasks |-> NoLocals]
    /\ result = [t \in StartupTasks |-> "none"]
    /\ log = [t \in StartupTasks |-> {}]
    /\ sent = [t \in StartupTasks |-> <<>>]

\* load_keys(config) returns the maps the shared state is built from
LoadKeysCall(t) ==
    /\ pc[t] = "load_keys"
    /\ farmer_private_keys' = LoadKeys(config).farmer_secret_keys
    /\ pool_public_keys' = LoadKeys(config).pool_secret_keys
    /\ pc' = [pc EXCEPT ![t] = "loaded"]
    /\ UNCHANGED <<maps, full_node_client, farmer_target, pool_target, config, lock,
                   response, locals, result, log, sent>>

NextLoadKeys == \E t \in StartupTasks : LoadKeysCall(t)

SpecLoadKeys == InitLoadKeys /\ [][NextLoadKeys]_vars

\* ================================================================ claims
Done(t) == pc[t] = "done"
Msgs(t) == Resp(t).message_signatures
Called(t) == response[t] # None
Range(seq) == {seq[i] : i \in DOMAIN seq}

\* the two signatures a sent request carries
RequestSignatures(request) ==
    IF request.type = "DeclareProofOfSpace"
    THEN <<request.challenge_chain_sp_signature, request.reward_chain_sp_signature>>
    ELSE <<request.foliage_block_data_signature, request.foliage_transaction_block_signature>>

\* the augmented key of the response for the copied proof
DerivedKey(t) ==
    GeneratePlotPublicKey(Resp(t).local_pk, Resp(t).farmer_pk,
                          locals[t].pospace[1].pool_contract_puzzle_hash # None).pk

\* the entry stored under the response's sp_hash holds at least one record
SpHashKnown(t) ==
    /\ Resp(t).sp_hash \in DOMAIN signage_points
    /\ signage_points[Resp(t).sp_hash] # <<>>

RejectionLines ==
    {"Do not have challenge hash", "Missing Signage Points",
     "Failed to load farmer proofs", "Failed to find Proof", "Have invalid PoSpace",
     "Detected Partial or PoSpace", "Key Mismatch",
     "Failed to validate cc signature", "Failed to validate rc signature",
     "Failed to validate foliage signature", "Failed to validate foliage_block signature",
     "Don't have the private key for the pool key used by harvester", "No Client"}

\* C1: whatever the response and the shared state, handle_signature ends by
\* returning Ok or Err and never panics; a response whose first hash is its
\* sp_hash and whose second hash is no stored reward_chain_sp is dropped.
C1_NeverPanics ==
    \A t \in HandlerTasks : Done(t) => result[t] \in {"Ok", "Err"}

\* C2: a response whose sp_hash has no entry in signage_points, or an empty
\* one, makes the call return Ok with no send and without the proofs map
\* being locked or read.
C2_UnknownSpHashDropped ==
    \A t \in HandlerTasks :
        (Called(t) /\ pc[t] # "signage_points" /\ ~SpHashKnown(t)) =>
            /\ Done(t)
            /\ result[t] = "Ok"
            /\ sent[t] = <<>>
            /\ ~locals[t].proofs_locked
            /\ locals[t].pospace = None
            /\ locals[t].request = None

C2_Witness ==
    \E t \in HandlerTasks :
        /\ Done(t)
        /\ Resp(t).sp_hash \in DOMAIN signage_points
        /\ signage_points[Resp(t).sp_hash] = <<>>
        /\ Len(Msgs(t)) = 2

\* C3: every request sent carries two aggregate signatures that each verify
\* against the derived augmented key and their own message; once a
\* verification has failed the call is over with Ok and nothing sent.
C3_SentOnlyVerified ==
    \A t \in HandlerTasks :
        /\ \A i \in DOMAIN sent[t] :
              \A j \in 1..2 :
                  Verify(RequestSignatures(sent[t][i].request)[j].value.sig,
                         Msgs(t)[j][1], DerivedKey(t), DerivedKey(t))
        /\ (Called(t) /\ FALSE \in Range(locals[t].verified)) =>
              Done(t) /\ result[t] = "Ok" /\ sent[t] = <<>>

C3_Witness ==
    \E t \in HandlerTasks :
        /\ sent[t] # <<>>
        /\ sent[t][1].request.type = "DeclareProofOfSpace"
        /\ locals[t].verified = <<TRUE, TRUE>>

\* C4: in either signing phase, a response whose derived augmented key differs
\* from the stored proof's plot_public_key is dropped and nothing is sent.
C4_KeyMismatchDropped ==
    \A t \in HandlerTasks :
        sent[t] # <<>> => DerivedKey(t) = locals[t].pospace[1].plot_public_key

\* C5: the two aggregates of every sent request are built from exactly the
\* harvester share, the farmer share and the taproot share when the proof has
\* a pool_contract_puzzle_hash, and from exactly the harvester share and the
\* farmer share when it has none.
C5_TaprootShares ==
    \A t \in HandlerTasks :
        \A i \in DOMAIN sent[t] :
            LET pospace == locals[t].pospace[1]
                agg_pk == locals[t].agg_pk[1]
                sk == farmer_private_keys[CHOOSE k \in locals[t].used_keys : TRUE]
                harvester(j) == Msgs(t)[j][2].value
                farmer(j) == SignPrepend(sk, Msgs(t)[j][1], agg_pk)
                taproot(j) ==
                    SignPrepend(GenerateTaprootSk(Resp(t).local_pk, PkOf(sk)),
                                Msgs(t)[j][1], agg_pk)
            IN  /\ Cardinality(locals[t].used_keys) = 1
                /\ Len(locals[t].sigs_to_agg) = 2
                /\ \A j \in 1..2 :
                      /\ locals[t].sigs_to_agg[j] =
                            IF pospace.pool_contract_puzzle_hash # None
                            THEN <<harvester(j), farmer(j), taproot(j)>>
                            ELSE <<harvester(j), farmer(j)>>
                      /\ RequestSignatures(sent[t][i].request)[j] =
                            ToBytes(Aggregate(locals[t].sigs_to_agg[j]).sig)

C5_Witness ==
    \E t \in HandlerTasks :
        /\ sent[t] # <<>>
        /\ locals[t].pospace[1].pool_contract_puzzle_hash # None
        /\ Len(locals[t].sigs_to_agg[1]) = 3
        /\ Len(locals[t].sigs_to_agg[2]) = 3

\* C6: a request is sent only if the copied proof is valid for the response's
\* challenge_hash and sp_hash; a proof the verifier rejects leads to no
\* signing, no send and Ok; SignedValues carries the proof's quality string.
C6_QualityFirst ==
    \A t \in HandlerTasks :
        /\ sent[t] # <<>> =>
              /\ locals[t].pospace # None
              /\ locals[t].pospace[1].challenge =
                    PosChallenge(Resp(t).challenge_hash, Resp(t).sp_hash)
        /\ (/\ Called(t)
            /\ locals[t].pospace # None
            /\ locals[t].pospace[1].challenge #
                  PosChallenge(Resp(t).challenge_hash, Resp(t).sp_hash)) =>
              /\ Done(t)
              /\ result[t] = "Ok"
              /\ sent[t] = <<>>
              /\ locals[t].used_keys = {}
              /\ locals[t].agg_pk = None
        /\ \A i \in DOMAIN sent[t] :
              sent[t][i].request.type = "SignedValues" =>
                  /\ locals[t].computed_quality_string # None
                  /\ sent[t][i].request.quality_string =
                        QualityHash(locals[t].pospace[1].proof)

C6_Witness ==
    \E t \in HandlerTasks :
        /\ sent[t] # <<>>
        /\ sent[t][1].request.type = "SignedValues"
        /\ sent[t][1].request.quality_string = QualityHash(locals[t].pospace[1].proof)

\* C7: a response with 0 or 1 message signatures and a known sp_hash is
\* dropped: nothing is sent and the call returns Ok.
C7_ShortListsDropped ==
    \A t \in HandlerTasks :
        (Done(t) /\ Len(Msgs(t)) <= 1 /\ SpHashKnown(t)) =>
            result[t] = "Ok" /\ sent[t] = <<>>

\* C8 (as claimed): a response with more than 2 message signatures carries no
\* actionable signatures: nothing is sent for it, even when its first two
\* entries alone form a valid response.
C8_LongListsIgnored ==
    \A t \in HandlerTasks :
        (Called(t) /\ Len(Msgs(t)) > 2) => sent[t] = <<>>

\* C8 (amended): of a response with more than 2 message signatures only the
\* first two entries are used; a request sent for it carries the aggregates
\* built from the harvester signatures of entries 1 and 2, which verify for
\* the hashes of entries 1 and 2, and a declaration names those two hashes.
C8_LongListsUseFirstTwo ==
    \A t \in HandlerTasks :
        (Called(t) /\ Len(Msgs(t)) > 2) =>
            \A i \in DOMAIN sent[t] :
                LET request == sent[t][i].request
                IN  /\ \A j \in 1..2 :
                          /\ locals[t].sigs_to_agg[j][1] = Msgs(t)[j][2].value
                          /\ Verify(RequestSignatures(request)[j].value.sig,
                                    Msgs(t)[j][1], locals[t].agg_pk[1],
                                    locals[t].agg_pk[1])
                    /\ request.type = "DeclareProofOfSpace" =>
                          /\ request.challenge_chain_sp = Msgs(t)[1][1]
                          /\ request.reward_chain_sp = Msgs(t)[2][1]

C8_Witness ==
    \E t \in HandlerTasks :
        /\ Called(t)
        /\ Len(Msgs(t)) > 2
        /\ sent[t] # <<>>
        /\ sent[t][1].request.type = "DeclareProofOfSpace"

\* C9: the call returns Err only when one of the first two harvester
\* signatures does not decode or a key-derivation or aggregation primitive
\* fails; every rejection it logs returns Ok, so undecodable signature bytes
\* behind an unknown proof return Ok.
C9_ErrOnlyForMalformedInput ==
    \A t \in HandlerTasks :
        /\ result[t] = "Err" =>
              /\ Len(Msgs(t)) >= 2
              /\ \/ \E j \in 1..2 : ~Msgs(t)[j][2].decodes
                 \/ \E j \in 1..2 : ~Msgs(t)[j][2].value.in_group
                 \/ ~GeneratePlotPublicKey(Resp(t).local_pk, Resp(t).farmer_pk, FALSE).ok
        /\ (Done(t) /\ log[t] \cap RejectionLines # {}) => result[t] = "Ok"
        /\ (Done(t) /\ \E i \in DOMAIN sent[t] : ~sent[t][i].ok) => result[t] = "Ok"
        /\ (Done(t) /\ locals[t].proofs_locked /\ locals[t].pospace = None) =>
              result[t] = "Ok"

C9_Witness ==
    \E t \in HandlerTasks :
        /\ Done(t)
        /\ result[t] = "Ok"
        /\ "Failed to find Proof" \in log[t]
        /\ Len(Msgs(t)) = 2
        /\ ~Msgs(t)[1][2].decodes

C9_WitnessErr ==
    \E t \in HandlerTasks : Done(t) /\ result[t] = "Err"

\* C10: one call makes at most one send attempt; a failed send is not tried
\* again and the call still returns Ok; without a client at dispatch the
\* request is dropped, nothing is sent by this call, and it returns Ok.
C10_AtMostOneSend ==
    \A t \in HandlerTasks :
        /\ Len(sent[t]) <= 1
        /\ (Done(t) /\ \E i \in DOMAIN sent[t] : ~sent[t][i].ok) => result[t] = "Ok"
        /\ "No Client" \in log[t] =>
              /\ sent[t] = <<>>
              /\ pc[t] \in {"scan", "done"}
              /\ Done(t) => result[t] = "Ok"

C10_Witness ==
    \E t \in HandlerTasks :
        /\ Done(t)
        /\ Len(sent[t]) = 1
        /\ ~sent[t][1].ok
        /\ result[t] = "Ok"

C10_WitnessNoClient ==
    \E t \in HandlerTasks :
        /\ Done(t)
        /\ "No Client" \in log[t]
        /\ full_node_client # None

PoolKeyLine == "Don't have the private key for the pool key used by harvester"

\* the declarations among the requests a call sent
Declarations(t) ==
    {sent[t][i].request : i \in {j \in DOMAIN sent[t] :
                                    sent[t][j].request.type = "DeclareProofOfSpace"}}

\* C11: in signage-point signing, a proof that names a pool public key the
\* key ring holds no private key for is never declared: once both aggregates
\* have verified the call is over with Ok, the rejection logged, nothing sent.
C11_UnownedPoolKeyRejected ==
    \A t \in HandlerTasks :
        (/\ Called(t)
         /\ locals[t].pospace # None
         /\ locals[t].pospace[1].pool_public_key # None
         /\ locals[t].pospace[1].pool_public_key[1] \notin DOMAIN pool_public_keys) =>
            /\ Declarations(t) = {}
            /\ (locals[t].is_sp_signatures /\ locals[t].verified = <<TRUE, TRUE>>) =>
                  /\ Done(t)
                  /\ result[t] = "Ok"
                  /\ PoolKeyLine \in log[t]
                  /\ locals[t].request = None
                  /\ sent[t] = <<>>

C11_Witness ==
    \E t \in HandlerTasks :
        /\ Done(t)
        /\ locals[t].is_sp_signatures
        /\ locals[t].verified = <<TRUE, TRUE>>
        /\ locals[t].pospace[1].pool_public_key = Some(PkOf(7))
        /\ PkOf(7) \notin DOMAIN pool_public_keys
        /\ result[t] = "Ok"

\* C12 (as claimed): in signage-point signing, a proof that names no pool
\* public key but has a pool_contract_puzzle_hash is not declared: no
\* DeclareProofOfSpace is built or sent for it, even when both aggregates
\* verify.
C12_ContractPlotNotDeclared ==
    \A t \in HandlerTasks :
        (/\ Called(t)
         /\ locals[t].pospace # None
         /\ locals[t].pospace[1].pool_public_key = None
         /\ locals[t].pospace[1].pool_contract_puzzle_hash # None
         /\ locals[t].is_sp_signatures) =>
            /\ locals[t].request = None
            /\ Declarations(t) = {}

\* C12 (amended): in signage-point signing, a proof that names no pool public
\* key is declared without the pool key map being consulted: once both
\* aggregates have verified a DeclareProofOfSpace is built whose pool_target
\* and pool_signature are None, no pool-key rejection is logged, and that
\* declaration is what is sent.
C12_ContractPlotDeclaredWithoutPoolTarget ==
    \A t \in HandlerTasks :
        (/\ Called(t)
         /\ locals[t].pospace # None
         /\ locals[t].pospace[1].pool_public_key = None
         /\ locals[t].is_sp_signatures) =>
            /\ PoolKeyLine \notin log[t]
            /\ locals[t].verified = <<TRUE, TRUE>> =>
                  /\ locals[t].request # None
                  /\ locals[t].request[1].type = "DeclareProofOfSpace"
                  /\ locals[t].request[1].pool_target = None
                  /\ locals[t].request[1].pool_signature = None
            /\ \A i \in DOMAIN sent[t] : sent[t][i].request = locals[t].request[1]

C12_Witness ==
    \E t \in HandlerTasks :
        /\ sent[t] # <<>>
        /\ sent[t][1].request.type = "DeclareProofOfSpace"
        /\ locals[t].pospace[1].pool_public_key = None
        /\ locals[t].pospace[1].pool_contract_puzzle_hash = Some(7)
        /\ sent[t][1].request.pool_target = None

\* C13: every DeclareProofOfSpace sent names as challenge_chain_sp the
\* response's sp_hash, which is its first message hash, and as
\* reward_chain_sp its second message hash, which is the reward_chain_sp of a
\* record stored under that sp_hash when the response was handled.
C13_DeclaredSignagePoint ==
    \A t \in HandlerTasks :
        \A request \in Declarations(t) :
            /\ request.challenge_chain_sp = Resp(t).sp_hash
            /\ request.challenge_chain_sp = Msgs(t)[1][1]
            /\ request.reward_chain_sp = Msgs(t)[2][1]
            /\ \E i \in DOMAIN locals[t].sps[1] :
                  /\ locals[t].sps[1][i].reward_chain_sp = request.reward_chain_sp
                  /\ locals[t].sps[1][i].challenge_chain_sp = request.challenge_chain_sp
            /\ locals[t].sps[1] = signage_points[Resp(t).sp_hash]

C13_Witness ==
    \E t \in HandlerTasks :
        /\ Declarations(t) # {}
        /\ Len(Msgs(t)) = 2
        /\ \E request \in Declarations(t) :
              request.challenge_chain_sp = 1 /\ request.reward_chain_sp = 2

\* the condition of signage-point signing: the first hash is the sp_hash and
\* the second is the reward_chain_sp of a record stored under it
SpPhase(t) ==
    /\ Msgs(t)[1][1] = Resp(t).sp_hash
    /\ \E i \in DOMAIN signage_points[Resp(t).sp_hash] :
          signage_points[Resp(t).sp_hash][i].reward_chain_sp = Msgs(t)[2][1]

SignedValuesSent(t) ==
    {sent[t][i].request : i \in {j \in DOMAIN sent[t] :
                                    sent[t][j].request.type = "SignedValues"}}

\* C19: a 2-entry response for a known sp_hash is handled as signage-point
\* signing (only a DeclareProofOfSpace may follow) exactly when its first hash
\* is the sp_hash and its second hash is a stored reward_chain_sp; every
\* other 2-entry response, also one whose first hash is the sp_hash and whose
\* second hash is no stored reward_chain_sp, is handled as foliage signing
\* (only SignedValues may follow).
C19_PhaseSelection ==
    \A t \in HandlerTasks :
        (/\ Called(t)
         /\ pc[t] # "signage_points"
         /\ Len(Msgs(t)) = 2
         /\ SpHashKnown(t)) =>
            /\ result[t] # "Panic"
            /\ locals[t].is_sp_signatures <=> SpPhase(t)
            /\ SpPhase(t) => SignedValuesSent(t) = {}
            /\ ~SpPhase(t) => Declarations(t) = {}

\* C20: every DeclareProofOfSpace sent carries the signage_point_index of the
\* first record stored under the response's sp_hash, also when the record
\* whose reward_chain_sp matched is a later one with another index.
C20_IndexOfFirstRecord ==
    \A t \in HandlerTasks :
        \A request \in Declarations(t) :
            request.signage_point_index =
                signage_points[Resp(t).sp_hash][1].signage_point_index

C20_Witness ==
    \E t \in HandlerTasks :
        \E request \in Declarations(t) :
            LET sps == signage_points[Resp(t).sp_hash]
            IN  /\ sps[1].reward_chain_sp # request.reward_chain_sp
                /\ sps[2].reward_chain_sp = request.reward_chain_sp
                /\ sps[2].signage_point_index # request.signage_point_index
                /\ sps[1].signage_point_index = request.signage_point_index

\* the locks a task holds
Held(t) == {n \in LockNames : Holds(t, n)}

\* C16: a handling task holds at most one of the four locks at any time, and
\* none while the quality check, signing, aggregation and verification run.
C16_AtMostOneLock ==
    \A t \in DOMAIN pc :
        /\ Cardinality(Held(t)) <= 1
        /\ pc[t] \in {"lookup_proof", "scan"} => Held(t) \subseteq {"proofs_of_space"}

HandlerStep ==
    \/ pc' # pc
    \/ locals' # locals
    \/ response' # response
    \/ result' # result
    \/ sent' # sent
    \/ log' # log

\* C15: no step of a handler task, whatever its outcome, changes the signage
\* points map, the proofs map or the key ring; the two maps change only by
\* ingestion, and the key ring never changes.
C15_HandlerLeavesStateUnchanged ==
    [][/\ HandlerStep => UNCHANGED <<maps, keyring>>
       /\ UNCHANGED keyring]_vars

C15_Witness ==
    \E t1, t2 \in DOMAIN pc :
        /\ Done(t1) /\ Done(t2)
        /\ sent[t1] # <<>>
        /\ result[t2] = "Err"
        /\ signage_points = StoredSignagePoints
        /\ proofs_of_space = StoredProofs

\* a task past its signage-point lookup and not yet returned
InFlight(t) ==
    pc[t] \in {"proofs_of_space", "lookup_proof", "scan", "full_node_client",
               "client", "send"}

\* C17: handling interleaves: a task past its signage-point lookup has given
\* the signage_points lock back, so that until it returns (also while it
\* awaits the send) another task can pass its own lookup and ingestion can
\* take the lock.
C17_LookupLockReleased ==
    \A t \in DOMAIN pc : InFlight(t) => LockFree("signage_points")

\* what the code does instead: a task in flight holds the signage_points
\* lock, so no two tasks are in flight together and ingestion of signage
\* points waits for the return
C17_HandlersSerialized ==
    /\ \A t \in DOMAIN pc : InFlight(t) => Holds(t, "signage_points")
    /\ \A t1, t2 \in DOMAIN pc : (InFlight(t1) /\ InFlight(t2)) => t1 = t2
    /\ (\E t \in DOMAIN pc : InFlight(t)) => ~ENABLED IngestSignagePoint

C17_BlockedWitness ==
    \E t1, t2 \in DOMAIN pc :
        /\ pc[t1] = "send"
        /\ pc[t2] = "signage_points"
        /\ Resp(t1).sp_hash # Resp(t2).sp_hash

\* the tasks whose send is in flight
Sending == {t \in DOMAIN pc : pc[t] = "send"}

\* C18: with any number of tasks running, at most one send is in flight on
\* the connection, and the task sending holds the connection's locks from
\* the start of the send to its completion.
C18_OneSendInFlight ==
    /\ Cardinality(Sending) <= 1
    /\ \A t \in Sending : Holds(t, "client") /\ Holds(t, "full_node_client")
    /\ \A t \in DOMAIN pc : Holds(t, "client") => pc[t] = "send"

C18_Witness ==
    \E t1, t2 \in DOMAIN pc :
        /\ pc[t1] = "send"
        /\ Holds(t1, "client")
        /\ pc[t2] = "signage_points"
        /\ locals[t2].sps = None

\* C21: in every DeclareProofOfSpace sent, pool_target and pool_signature
\* are both present or both absent, and present exactly when the proof names
\* a pool public key, whatever its pool_contract_puzzle_hash; when present
\* the target is {max_height 0, puzzle_hash the process-wide pool target},
\* signed with the private key stored under that pool public key;
\* farmer_puzzle_hash is the process-wide farmer target.
C21_PoolTargetOfDeclaration ==
    \A t \in HandlerTasks :
        \A request \in Declarations(t) :
            LET pospace == locals[t].pospace[1]
                target == [max_height |-> 0, puzzle_hash |-> pool_target]
            IN  /\ request.pool_target = None <=> request.pool_signature = None
                /\ request.pool_target # None <=> pospace.pool_public_key # None
                /\ request.pool_target # None =>
                      /\ request.pool_target = Some(target)
                      /\ pospace.pool_public_key[1] \in DOMAIN pool_public_keys
                      /\ request.pool_signature =
                            Some(SignatureBytes(
                                Sign(pool_public_keys[pospace.pool_public_key[1]],
                                     PoolTargetBytes(target))))
                      /\ Verify(request.pool_signature[1].value.sig,
                                PoolTargetBytes(target),
                                pospace.pool_public_key[1], pospace.pool_public_key[1])
                /\ request.farmer_puzzle_hash = farmer_target

C21_Witness ==
    \E t \in HandlerTasks :
        \E request \in Declarations(t) :
            /\ locals[t].pospace[1].pool_public_key # None
            /\ locals[t].pospace[1].pool_contract_puzzle_hash # None
            /\ request.pool_target # None
            /\ request.pool_signature # None

C21_WitnessNoPoolKey ==
    \E t \in HandlerTasks :
        \E request \in Declarations(t) :
            /\ locals[t].pospace[1].pool_public_key = None
            /\ locals[t].pospace[1].pool_contract_puzzle_hash = None
            /\ request.pool_target = None

\* the call came to the loop over the farmer keys
ScanReached(t) ==
    /\ Called(t)
    /\ locals[t].pospace # None
    /\ locals[t].computed_quality_string # None
    /\ Len(Msgs(t)) >= 2
    /\ Msgs(t)[1][2].decodes
    /\ Msgs(t)[2][2].decodes

OwnedFarmerPks == {PkOf(farmer_private_keys[k]) : k \in DOMAIN farmer_private_keys}

C22_WitnessFullScan ==
    \E t \in HandlerTasks :
        /\ Done(t)
        /\ Len(sent[t]) = 1
        /\ locals[t].keys = {}
        /\ Cardinality(DOMAIN farmer_private_keys) = 2

KeysLoaded == \A t \in DOMAIN pc : pc[t] # "load_keys"

\* the secret keys a configuration names
ConfiguredFarmerSks ==
    {SecretKeyFrom(config.farmer_info[i].farmer_secret_key) :
        i \in DOMAIN config.farmer_info}
ConfiguredPoolSks ==
    {SecretKeyFrom(config.farmer_info[i].pool_secret_key[1]) :
        i \in {j \in DOMAIN config.farmer_info :
                  config.farmer_info[j].pool_secret_key # None}}

\* a map holds exactly the keys sks, each under its own public key
KeyedByOwnPk(map, sks) ==
    /\ \A k \in DOMAIN map : PkOf(map[k]) = k /\ map[k] \in sks
    /\ \A sk \in sks : PkOf(sk) \in DOMAIN map /\ map[PkOf(sk)] = sk
    /\ Cardinality(DOMAIN map) = Cardinality(sks)

\* C23: after load_keys, for any farmer_info list, also with repeated keys,
\* every entry of the farmer-key map and of the pool-key map is stored under
\* the public key of that very private key, every configured farmer key and
\* pool key is in its map, and a map has one entry per distinct key.
C23_KeysUnderOwnPublicKey ==
    KeysLoaded =>
        /\ KeyedByOwnPk(farmer_private_keys, ConfiguredFarmerSks)
        /\ KeyedByOwnPk(pool_public_keys, ConfiguredPoolSks)

C23_Witness ==
    /\ KeysLoaded
    /\ Len(config.farmer_info) = 2
    /\ config.farmer_info[1].farmer_secret_key # config.farmer_info[2].farmer_secret_key
    /\ Cardinality(DOMAIN farmer_private_keys) = 1
    /\ config.farmer_info[1].pool_secret_key = Some(4)
    /\ config.farmer_info[2].pool_secret_key = Some(1)
    /\ Cardinality(DOMAIN pool_public_keys) = 2

\* the proof stored under the response's sp_hash and plot_identifier
StoredCandidate(t) ==
    IF Resp(t).sp_hash \in DOMAIN proofs_of_space
    THEN FindProof(proofs_of_space[Resp(t).sp_hash], Resp(t).plot_identifier)
    ELSE None

\* every check of a call was made on the copy it holds
ChecksOnCopy(t) ==
    LET copy == locals[t].pospace[1]
    IN  /\ locals[t].computed_quality_string # None =>
              locals[t].computed_quality_string =
                  VerifyAndGetQualityString(copy, Resp(t).challenge_hash, Resp(t).sp_hash)
        /\ locals[t].agg_pk # None =>
              locals[t].agg_pk =
                  Some(GeneratePlotPublicKey(Resp(t).local_pk, Resp(t).farmer_pk,
                                             copy.pool_contract_puzzle_hash # None).pk)
        /\ \A request \in Declarations(t) :
              /\ request.proof_of_space = copy
              /\ copy.challenge = PosChallenge(Resp(t).challenge_hash, Resp(t).sp_hash)
              /\ locals[t].agg_pk = Some(copy.plot_public_key)
              /\ request.pool_target # None <=> copy.pool_public_key # None

\* C25: the proof a call works on is the candidate stored under the
\* response's sp_hash and plot_identifier when the call held the
\* proofs_of_space lock; it stays that copy whatever ingestion and eviction do
\* to the map afterwards, every check is made on it, and the declaration
\* sent carries it.
C25_DeclaredProofIsTheCopy ==
    /\ [](\A t \in DOMAIN pc : locals[t].pospace # None => ChecksOnCopy(t))
    /\ [][\A t \in DOMAIN pc :
             /\ (pc[t] = "lookup_proof" /\ pc'[t] # "lookup_proof") =>
                   locals'[t].pospace = StoredCandidate(t)
             /\ (pc[t] \notin {"lookup_proof", "done"}) =>
                   locals'[t].pospace = locals[t].pospace
             /\ pc'[t] = "send" => locals'[t].request # None
             /\ (pc[t] = "send" /\ pc'[t] # "send") =>
                   sent'[t] = Append(sent[t], [request |-> locals[t].request[1],
                                               ok |-> sent'[t][Len(sent'[t])].ok])]_vars

C25_Witness ==
    \E t \in DOMAIN pc :
        /\ sent[t] # <<>>
        /\ sent[t][1].request.type = "DeclareProofOfSpace"
        /\ sent[t][1].request.proof_of_space = PlotD
        /\ StoredCandidate(t) = Some(PlotG)
        /\ locals[t].pospace = Some(PlotD)

C25_WitnessEvicted ==
    \E t \in DOMAIN pc :
        /\ pc[t] = "send"
        /\ locals[t].request[1].type = "DeclareProofOfSpace"
        /\ locals[t].request[1].proof_of_space = PlotD
        /\ StoredCandidate(t) = None

\* the order in which handle_signature takes the locks
LockOrder == <<"signage_points", "proofs_of_space", "full_node_client", "client">>
LockRank(name) == CHOOSE i \in DOMAIN LockOrder : LockOrder[i] = name

\* a call is under way
Running(t) == pc[t] \notin {"idle", "done"}

C24_WitnessUnwound ==
    \E t1, t2 \in ConcurrentTasks :
        /\ Done(t1) /\ result[t1] = "Panic" /\ Held(t1) = {}
        /\ pc[t2] = "send"

====
